---- MODULE Spec2Model ----
(***************************************************************************)
(* Stream Overlay SaaS API (src/main.py, src/schemas.py).                  *)
(*                                                                         *)
(* The state is the content of the document store's collections "user",    *)
(* "overlay", "widget" and "featureflag".  A collection is a sequence of   *)
(* documents in insertion order; find_one returns the first document that  *)
(* matches.  Every HTTP handler is one action.  For the claims about       *)
(* interleaved requests, signup and signin are also modelled as two steps  *)
(* each (the lookup, then the write), run by the request slots of Procs.   *)
(*                                                                         *)
(* secrets.token_hex(16) draws 128 random bits; it is modelled as a value  *)
(* that was never drawn before (the counter nextToken).                    *)
(* Document ids are opaque values handed out by the store; the id a        *)
(* handler receives in a path or payload is compared with them directly.   *)
(*                                                                         *)
(* Specifications:                                                         *)
(*   Spec      the overlay and widget handlers, one request at a time,     *)
(*             over a store that holds a pro user and a free-plan signup   *)
(*   AuthSpec  signup and signin, one request at a time                    *)
(*   ConcSpec  signup and signin with their store calls interleaved        *)
(*   GateSpec  the feature gate over every override table up to MaxFlags   *)
(***************************************************************************)
EXTENDS Integers, Sequences, FiniteSets, TLC

\* ---------------------------------------------------------------- bounds
MaxUsers    == 2
MaxOverlays == 1
MaxWidgets  == 1
MaxFlags    == 1
MaxTokens   == 3

\* ------------------------------------------------------- input alphabets
Emails      == {"a@x", "b@x"}
Passwords   == {"pw1", "pw2"}
Procs       == {1, 2}

NoToken     == 0      \* auth_token is None
NoHeader    == 0      \* the Authorization header is absent
BogusToken  == MaxTokens + 1                 \* a bearer token no user holds
NoId        == MaxOverlays + MaxWidgets + 1  \* an id no document has

PlanName    == {"free", "pro"}
WidgetType  == {"text", "timer", "countdown", "goal", "image", "youtube",
                "twitch_alert", "minigame_trivia", "minigame_poll",
                "leaderboard"}

\* widget types the requests of the model use: one free default, one pro
\* default; "bogus" is a string outside the WidgetType literal
ReqTypes    == {"text", "youtube", "bogus"}
\* widget types the override rows of the model are about
FlagTypes   == {"text", "youtube", "bogus"}

VARIABLES user, overlay, widget, featureflag,
          nextToken, nextOverlay, last, issued, req

vars == <<user, overlay, widget, featureflag,
          nextToken, nextOverlay, last, issued, req>>

\* ------------------------------------------------------ store primitives
Range(s) == {s[i] : i \in 1..Len(s)}

\* find_one: of the indices S of the matching documents the first one, 0
\* when no document matches
First(S) == IF S = {} THEN 0 ELSE CHOOSE i \in S : \A j \in S : i <= j

\* (a delete whose filter matches no document)
RemoveAt_none(coll, i) == coll

\* delete_one: coll without its i-th document
RemoveAt(coll, i) ==
  [k \in 1..(Len(coll) - 1) |-> IF k < i THEN coll[k] ELSE coll[k + 1]]

\* $set: the fields of upd overwrite or extend those of doc
SetFields(doc, upd) ==
  [f \in (DOMAIN doc) \cup (DOMAIN upd) |->
      IF f \in DOMAIN upd THEN upd[f] ELSE doc[f]]

\* create_document: the store assigns the next id of the collection and
\* persists the document at the end of the collection
NewUserId == Len(user) + 1
NewWidgetId == Len(widget) + 1
create_document(coll, data) == Append(coll, data)

FeatureKey(widget_type) == <<"widget", widget_type>>

\* ------------------------------------------------------------------ auth
\* current_user_in: get_current_user over the user collection coll; 0 when the request is rejected with 401, otherwise the
\* index of the user the bearer token resolves to
current_user_in(coll, authorization) ==
  IF authorization = NoHeader THEN 0
  ELSE First({k \in 1..Len(coll) : coll[k].auth_token = authorization})

get_current_user(authorization) == current_user_in(user, authorization)

\* (no ownership check)
IsOwner_any(doc, u) == TRUE

\* doc.get("owner_user_id") != str(user["_id"]) is false
IsOwner(doc, u) == doc.owner_user_id = u._id

\* ---------------------------------------------------------- feature gate
DefaultFlag(t, p) == [feature_key |-> FeatureKey(t), plan_name |-> p, allowed |-> TRUE]

DEFAULT_FEATURES ==
  << DefaultFlag("text", "free"),
     DefaultFlag("timer", "free"),
     DefaultFlag("countdown", "free"),
     DefaultFlag("youtube", "pro"),
     DefaultFlag("goal", "pro"),
     DefaultFlag("twitch_alert", "pro"),
     DefaultFlag("minigame_trivia", "pro"),
     DefaultFlag("minigame_poll", "pro"),
     DefaultFlag("leaderboard", "pro") >>

\* (an override row is honoured only when it allows)
can_use_widget_type_allow_only(u, widget_type) ==
  LET plan == IF "plan" \in DOMAIN u THEN u.plan ELSE "free"
      feature_key == FeatureKey(widget_type)
      Match(f) == f.feature_key = feature_key /\ f.plan_name = plan
      flag == First({k \in 1..Len(featureflag) : Match(featureflag[k])})
      dflt == First({k \in 1..Len(DEFAULT_FEATURES) : Match(DEFAULT_FEATURES[k])})
  IN  IF flag # 0 /\ featureflag[flag].allowed THEN TRUE
      ELSE IF dflt # 0 THEN DEFAULT_FEATURES[dflt].allowed
      ELSE FALSE

\* (the gate lets everything through)
can_use_widget_type_open(u, widget_type) == TRUE

can_use_widget_type(u, widget_type) ==
  LET plan == IF "plan" \in DOMAIN u THEN u.plan ELSE "free"
      feature_key == FeatureKey(widget_type)
      Match(f) == f.feature_key = feature_key /\ f.plan_name = plan
      flag == First({k \in 1..Len(featureflag) : Match(featureflag[k])})
      dflt == First({k \in 1..Len(DEFAULT_FEATURES) : Match(DEFAULT_FEATURES[k])})
  IN  IF flag # 0 THEN featureflag[flag].allowed
      ELSE IF dflt # 0 THEN DEFAULT_FEATURES[dflt].allowed
      ELSE FALSE

\* ----------------------------------------------------------- responses
NoBody == [none |-> TRUE]
Resp(op, status, out) == [op |-> op, status |-> status, out |-> out]

Idle == [pc |-> "idle"]

\* ---------------------------------------------------------------- Init
\* a user stored without a token (auth_token: Optional[str] = None)
SeedUser(p) ==
  [_id |-> 1, email |-> "a@x", password_hash |-> "pw1",
   plan |-> p, auth_token |-> NoToken]

SeedUsers == {<< >>} \cup { << SeedUser(p) >> : p \in PlanName }

FlagRows ==
  [feature_key : {FeatureKey(t) : t \in FlagTypes}, plan_name : PlanName,
   allowed : BOOLEAN]

\* override tables: at most MaxFlags rows, one row per (feature_key, plan_name)
RECURSIVE FlagTables(_)
FlagTables(n) ==
  IF n = 0 THEN {<< >>}
  ELSE LET T == FlagTables(n - 1)
       IN  T \cup { Append(t, r) : t \in {x \in T : Len(x) = n - 1},
                                    r \in FlagRows }

KeysUnique(t) ==
  \A i, j \in 1..Len(t) :
     (t[i].feature_key = t[j].feature_key /\ t[i].plan_name = t[j].plan_name)
        => i = j

FlagRow(t, p, a) == [feature_key |-> FeatureKey(t), plan_name |-> p, allowed |-> a]

\* the override tables the request-level specifications start from
SampleFlagTables ==
  { << >>,
    << FlagRow("youtube", "free", TRUE), FlagRow("bogus", "free", TRUE) >> }

\* the store at start-up holds a pro user who signed in before; every other
\* user signs up and is on the free plan
Init ==
  /\ user = << SetFields(SeedUser("pro"), [auth_token |-> 1]) >>
  /\ overlay = << >>
  /\ widget = << >>
  /\ featureflag \in SampleFlagTables
  /\ nextToken = Len(user) + 1
  /\ nextOverlay = 1
  /\ last = Resp("none", 0, NoBody)
  /\ issued = {}
  /\ req = [p \in Procs |-> Idle]

\* =========================================================================
\* Handlers, one request at a time
\* =========================================================================

\* ---- POST /auth/signup --------------------------------------------------
\* (no lookup of the email)
signup_existing_none(email) == 0

\* line 106: existing = db["user"].find_one({"email": payload.email})
signup_existing(email) == First({k \in 1..Len(user) : user[k].email = email})

\* line 110: User(email=..., password_hash=payload.password, auth_token=token)
NewUser(email, password, token) ==
  [_id |-> NewUserId, email |-> email, password_hash |-> password,
   plan |-> "free", auth_token |-> token]

\* lines 109-112: draw the token, insert the user, answer {token, user_id}
signup_create(email, password) ==
  /\ Len(user) < MaxUsers
  /\ nextToken <= MaxTokens
  /\ user' = create_document(user, NewUser(email, password, nextToken))
  /\ nextToken' = nextToken + 1
  /\ last' = Resp("signup", 200,
                  [token |-> nextToken, user_id |-> NewUserId])
  /\ issued' = issued \cup {[token |-> nextToken, user_id |-> NewUserId]}

signup_conflict(email, password) ==
  /\ last' = Resp("signup", 400, NoBody)
  /\ UNCHANGED <<user, nextToken, issued>>

Signup(email, password) ==
  /\ IF signup_existing(email) # 0
       THEN signup_conflict(email, password)
       ELSE signup_create(email, password)
  /\ UNCHANGED <<overlay, widget, featureflag, nextOverlay, req>>

\* ---- POST /auth/signin --------------------------------------------------
\* line 117: find_one({"email": ..., "password_hash": ...})
signin_find(email, password) ==
  First({k \in 1..Len(user) :
           user[k].email = email /\ user[k].password_hash = password})

\* (a new token at every signin)
signin_token_rotating(u) == nextToken

\* line 120: token = user.get("auth_token") or secrets.token_hex(16)
signin_token(u) == IF u.auth_token # NoToken THEN u.auth_token ELSE nextToken

\* line 122: update_one({"_id": user["_id"]}, {"$set": {"auth_token": token}})
SetAuthToken(coll, id, token) ==
  LET i == First({k \in 1..Len(coll) : coll[k]._id = id})
  IN  IF i = 0 THEN coll
      ELSE [coll EXCEPT ![i] = SetFields(coll[i], [auth_token |-> token])]

signin_unauthorized(email, password) ==
  /\ last' = Resp("signin", 401, NoBody)
  /\ UNCHANGED <<user, nextToken, issued>>

signin_respond(email, password, token, id) ==
  /\ last' = Resp("signin", 200,
                  [token |-> token, user_id |-> id])
  /\ issued' = issued \cup {[token |-> token, user_id |-> id]}

Signin(email, password) ==
  /\ LET i == signin_find(email, password)
     IN  IF i = 0 THEN signin_unauthorized(email, password)
         ELSE LET u == user[i]
                  token == signin_token(u)
              IN  /\ IF u.auth_token = NoToken
                       THEN /\ nextToken <= MaxTokens
                            /\ nextToken' = nextToken + 1
                            /\ user' = SetAuthToken(user, u._id, token)
                       ELSE UNCHANGED <<user, nextToken>>
                  /\ signin_respond(email, password, token, u._id)
  /\ UNCHANGED <<overlay, widget, featureflag, nextOverlay, req>>

\* ---- authenticated handlers --------------------------------------------
AuthHeaders == {NoHeader, BogusToken} \cup (1..(nextToken - 1))

\* get_current_user raised 401: the handler body never runs
Unauthorized(op) ==
  /\ last' = Resp(op, 401, NoBody)
  /\ UNCHANGED <<user, overlay, widget, featureflag, nextToken, nextOverlay,
                 issued, req>>

\* the handler raised HTTPException(status) before writing anything
Reject(op, status) ==
  /\ last' = Resp(op, status, NoBody)
  /\ UNCHANGED <<user, overlay, widget, featureflag, nextToken, nextOverlay,
                 issued, req>>

\* find_one({"_id": id}) or find_one({"id": id}) on a collection
FindById(coll, id) ==
  LET byId == First({k \in 1..Len(coll) : coll[k]._id = id})
  IN  IF byId # 0 THEN byId
      ELSE First({k \in 1..Len(coll) : "id" \in DOMAIN coll[k] /\ coll[k].id = id})

\* ---- POST /overlays -----------------------------------------------------
\* CreateOverlayRequest defaults
DefaultWidth == 1920
DefaultHeight == 1080

\* secrets.token_urlsafe(16): a value never drawn before
NewSecret == nextOverlay

CreateOverlay(authorization) ==
  LET c == get_current_user(authorization)
  IN  IF c = 0 THEN Unauthorized("create_overlay")
      ELSE /\ nextOverlay <= MaxOverlays
           /\ overlay' = create_document(overlay,
                [_id |-> nextOverlay, owner_user_id |-> user[c]._id,
                 width |-> DefaultWidth, height |-> DefaultHeight,
                 secret_token |-> NewSecret])
           /\ nextOverlay' = nextOverlay + 1
           /\ last' = Resp("create_overlay", 200,
                           [id |-> nextOverlay, secret_token |-> NewSecret])
           /\ UNCHANGED <<user, widget, featureflag, nextToken, issued, req>>

\* ---- DELETE /overlays/{overlay_id} --------------------------------------
DeleteOverlay(authorization, overlay_id) ==
  LET c == get_current_user(authorization)
      \* lines 179-182: by object id, then by the id string
      d == First({k \in 1..Len(overlay) : overlay[k]._id = overlay_id})
  IN  IF c = 0 THEN Unauthorized("delete_overlay")
      ELSE IF d = 0 THEN Reject("delete_overlay", 404)
      ELSE IF ~ IsOwner(overlay[d], user[c])
             THEN Reject("delete_overlay", 403)
      ELSE /\ overlay' = RemoveAt(overlay,
                           First({k \in 1..Len(overlay) : overlay[k]._id = overlay[d]._id}))
           /\ last' = Resp("delete_overlay", 200, NoBody)
           /\ UNCHANGED <<user, widget, featureflag, nextToken, nextOverlay,
                          issued, req>>

\* ---- GET /overlays/{overlay_id}/widgets ---------------------------------
\* d["id"] = str(d.pop("_id"))
Normalize(d) ==
  [f \in ((DOMAIN d) \ {"_id"}) \cup {"id"} |->
      IF f = "id" THEN d._id ELSE d[f]]

WidgetsOf(overlay_id) ==
  LET ws == SelectSeq(widget, LAMBDA w : w.overlay_id = overlay_id)
  IN  [i \in 1..Len(ws) |-> Normalize(ws[i])]

ListWidgets(authorization, overlay_id) ==
  LET c == get_current_user(authorization)
      \* lines 194-199: by _id, by an "id" field, by owner and _id
      o == FindById(overlay, overlay_id)
  IN  IF c = 0 THEN Unauthorized("list_widgets")
      ELSE IF o = 0 THEN Reject("list_widgets", 404)
      ELSE IF ~ IsOwner(overlay[o], user[c])
             THEN Reject("list_widgets", 403)
      ELSE /\ last' = Resp("list_widgets", 200,
                           [widgets |-> WidgetsOf(overlay_id)])
           /\ UNCHANGED <<user, overlay, widget, featureflag, nextToken,
                          nextOverlay, issued, req>>

\* ---- POST /widgets ------------------------------------------------------
CreateWidget(authorization, overlay_id, type) ==
  LET c == get_current_user(authorization)
  IN  IF c = 0 THEN Unauthorized("create_widget")
      ELSE IF ~ can_use_widget_type(user[c], type)
             THEN Reject("create_widget", 402)
      \* Widget(**payload.model_dump()): type must be one of WidgetType
      ELSE IF type \notin WidgetType THEN Reject("create_widget", 500)
      ELSE /\ Len(widget) < MaxWidgets
           /\ widget' = create_document(widget,
                [_id |-> NewWidgetId, overlay_id |-> overlay_id,
                 type |-> type, x |-> 0])
           /\ last' = Resp("create_widget", 200, [id |-> NewWidgetId])
           /\ UNCHANGED <<user, overlay, featureflag, nextToken, nextOverlay,
                          issued, req>>

\* ---- PATCH /widgets/{widget_id} -----------------------------------------
\* payload.updates: an arbitrary field map
Updates ==
  {[type |-> "youtube"]}
    \cup {[overlay_id |-> k] : k \in 1..MaxOverlays}

UpdateWidget(authorization, widget_id, updates) ==
  LET c == get_current_user(authorization)
      w == FindById(widget, widget_id)
      o == FindById(overlay, widget[w].overlay_id)
  IN  IF c = 0 THEN Unauthorized("update_widget")
      ELSE IF w = 0 THEN Reject("update_widget", 404)
      ELSE IF o = 0 \/ ~ IsOwner(overlay[o], user[c])
             THEN Reject("update_widget", 403)
      ELSE /\ widget' = [widget EXCEPT
                 ![First({k \in 1..Len(widget) : widget[k]._id = widget[w]._id})] =
                    SetFields(widget[w], updates)]
           /\ last' = Resp("update_widget", 200, NoBody)
           /\ UNCHANGED <<user, overlay, featureflag, nextToken, nextOverlay,
                          issued, req>>

\* ---- GET /o/{overlay_id}/{secret} ---------------------------------------
\* (no comparison of the secret)
SecretMatches_any(doc, secret) == TRUE

\* line 239: overlay.get("secret_token") != secret is false
SecretMatches(doc, secret) == doc.secret_token = secret

GetOverlayPublic(overlay_id, secret) ==
  LET o == FindById(overlay, overlay_id)
  IN  IF o = 0 \/ ~ SecretMatches(overlay[o], secret)
        THEN Reject("get_overlay_public", 404)
      ELSE /\ last' = Resp("get_overlay_public", 200,
                           [id |-> overlay[o]._id, width |-> overlay[o].width,
                            height |-> overlay[o].height,
                            widgets |-> WidgetsOf(overlay_id)])
           /\ UNCHANGED <<user, overlay, widget, featureflag, nextToken,
                          nextOverlay, issued, req>>

\* ---- the requests of the model ------------------------------------------
OverlayIds == (1..MaxOverlays) \cup {NoId}
Secrets    == (1..MaxOverlays) \cup {NoId}
WidgetIds  == (1..MaxWidgets) \cup {NoId}

Next ==
  \/ \E e \in Emails : Signup(e, "pw1")
  \/ \E a \in AuthHeaders : CreateOverlay(a)
  \/ \E a \in AuthHeaders, o \in OverlayIds : DeleteOverlay(a, o)
  \/ \E a \in AuthHeaders, o \in OverlayIds : ListWidgets(a, o)
  \/ \E a \in AuthHeaders, o \in OverlayIds, t \in ReqTypes : CreateWidget(a, o, t)
  \/ \E a \in AuthHeaders, w \in WidgetIds, u \in Updates : UpdateWidget(a, w, u)
  \/ \E o \in OverlayIds, s \in Secrets : GetOverlayPublic(o, s)

Spec == Init /\ [][Next]_vars

\* =========================================================================
\* Interleaved signup and signin requests: every database call is a step
\* =========================================================================
Pending(pc) == Cardinality({q \in Procs : req[q].pc = pc})

\* line 106, and the 400 answer when the email is taken
SignupFind(p, email, password) ==
  /\ req[p].pc = "idle"
  /\ IF signup_existing(email) # 0
       THEN /\ signup_conflict(email, password)
            /\ UNCHANGED req
       ELSE /\ Len(user) + Pending("signup_create") < MaxUsers
            /\ nextToken + Pending("signup_create") <= MaxTokens
            /\ req' = [req EXCEPT ![p] = [pc |-> "signup_create",
                                          email |-> email, password |-> password]]
            /\ UNCHANGED <<user, nextToken, last, issued>>
  /\ UNCHANGED <<overlay, widget, featureflag, nextOverlay>>

\* lines 109-112
SignupCreate(p) ==
  /\ req[p].pc = "signup_create"
  /\ signup_create(req[p].email, req[p].password)
  /\ req' = [req EXCEPT ![p] = Idle]
  /\ UNCHANGED <<overlay, widget, featureflag, nextOverlay>>

\* lines 117-121; a user that already holds a token is answered at once
SigninFind(p, email, password) ==
  /\ req[p].pc = "idle"
  /\ LET i == signin_find(email, password)
     IN  IF i = 0
           THEN /\ signin_unauthorized(email, password)
                /\ UNCHANGED req
         ELSE IF user[i].auth_token # NoToken
           THEN /\ signin_respond(email, password, signin_token(user[i]), user[i]._id)
                /\ UNCHANGED <<user, nextToken, req>>
         ELSE /\ nextToken <= MaxTokens
              /\ nextToken' = nextToken + 1
              /\ req' = [req EXCEPT ![p] = [pc |-> "signin_update",
                                            email |-> email, password |-> password,
                                            id |-> user[i]._id,
                                            token |-> signin_token(user[i])]]
              /\ UNCHANGED <<user, last, issued>>
  /\ UNCHANGED <<overlay, widget, featureflag, nextOverlay>>

\* lines 122-123
SigninUpdate(p) ==
  /\ req[p].pc = "signin_update"
  /\ user' = SetAuthToken(user, req[p].id, req[p].token)
  /\ signin_respond(req[p].email, req[p].password, req[p].token, req[p].id)
  /\ req' = [req EXCEPT ![p] = Idle]
  /\ UNCHANGED <<overlay, widget, featureflag, nextToken, nextOverlay>>

\* signup and signin alone, one request at a time, over a store that may
\* already hold a user without a token
NextAuth ==
  \/ \E e \in Emails, pw \in Passwords : Signup(e, pw)
  \/ \E e \in Emails, pw \in Passwords : Signin(e, pw)

InitConc ==
  /\ user \in SeedUsers
  /\ overlay = << >>
  /\ widget = << >>
  /\ featureflag = << >>
  /\ nextToken = 1
  /\ nextOverlay = 1
  /\ last = Resp("none", 0, NoBody)
  /\ issued = {}
  /\ req = [p \in Procs |-> Idle]

NextConc ==
  \/ \E p \in Procs, e \in Emails, pw \in Passwords : SignupFind(p, e, pw)
  \/ \E p \in Procs : SignupCreate(p)
  \/ \E p \in Procs, e \in Emails, pw \in Passwords : SigninFind(p, e, pw)
  \/ \E p \in Procs : SigninUpdate(p)

ConcSpec == InitConc /\ [][NextConc]_vars

AuthSpec == InitConc /\ [][NextAuth]_vars

\* =========================================================================
\* The feature gate as a function of the plan, the widget type and the
\* override table
\* =========================================================================
GateTypes == WidgetType \cup {"bogus"}

CanUse(plan, type) ==
  /\ last' = Resp("can_use", 200,
                  [plan |-> plan, type |-> type,
                   allowed |-> can_use_widget_type([plan |-> plan], type)])
  /\ UNCHANGED <<user, overlay, widget, featureflag, nextToken, nextOverlay,
                 issued, req>>

InitGate ==
  /\ user = << >>
  /\ overlay = << >>
  /\ widget = << >>
  /\ featureflag \in {t \in FlagTables(MaxFlags) : KeysUnique(t)}
  /\ nextToken = 1
  /\ nextOverlay = 1
  /\ last = Resp("none", 0, NoBody)
  /\ issued = {}
  /\ req = [p \in Procs |-> Idle]

NextGate == \E plan \in PlanName, type \in GateTypes : CanUse(plan, type)

GateSpec == InitGate /\ [][NextGate]_vars

\* =========================================================================
\* Properties
\* =========================================================================
\* A step that answers a request leaves the answer in last; last.op names
\* the handler that answered.
Collections == <<user, overlay, widget, featureflag>>

\* the token resolves, by get_current_user, to the user with this id
Authenticates(coll, token, id) ==
  LET i == current_user_in(coll, token)
  IN  i # 0 /\ coll[i]._id = id

\* what the feature gate is specified to answer for a plan and a widget type
SpecAllowed(plan, type) ==
  LET rows == {r \in Range(featureflag) :
                 r.feature_key = FeatureKey(type) /\ r.plan_name = plan}
      dflt == {d \in Range(DEFAULT_FEATURES) :
                 d.feature_key = FeatureKey(type) /\ d.plan_name = plan}
  IN  IF rows # {} THEN \A r \in rows : r.allowed
      ELSE \E d \in dflt : d.allowed

\* the overlay owned by user u that has this id
OwnedBy(o, u) == \E d \in Range(overlay) : d._id = o /\ d.owner_user_id = u._id

Exists(o) == \E d \in Range(overlay) : d._id = o

\* C1: signup with an email that is already stored answers 400 and changes
\* no collection; signup with a new email appends exactly one user with that
\* email and a token no stored user holds, answers that token, and the token
\* then authenticates as the new user.
C1_Signup ==
  [][last'.op = "signup" =>
     \A e \in Emails, pw \in Passwords :
       Signup(e, pw) =>
         IF \E u \in Range(user) : u.email = e
           THEN /\ last' = Resp("signup", 400, NoBody)
                /\ UNCHANGED Collections
           ELSE /\ last'.op = "signup" /\ last'.status = 200
                /\ Len(user') = Len(user) + 1
                /\ SubSeq(user', 1, Len(user)) = user
                /\ user'[Len(user')].email = e
                /\ user'[Len(user')].auth_token = last'.out.token
                /\ user'[Len(user')]._id = last'.out.user_id
                /\ last'.out.token # NoToken
                /\ \A u \in Range(user) : u.auth_token # last'.out.token
                /\ \A u \in Range(user) : u._id # last'.out.user_id
                /\ Authenticates(user', last'.out.token, last'.out.user_id)
                /\ UNCHANGED <<overlay, widget, featureflag>>]_vars

C1_Witness ==
  /\ last.op = "signup" /\ last.status = 200
  /\ Len(user) = 2
  /\ user[2]._id = last.out.user_id
  /\ Authenticates(user, last.out.token, last.out.user_id)

\* C2: one request at a time, signin with credentials no user matches
\* answers 401 and changes nothing; with matching credentials it answers a
\* token that authenticates as the matching user, it stores a token for a
\* user that had none, it never replaces a stored token, and every token
\* that was answered is still the token stored for that user.
C2_Signin ==
  /\ [][last'.op = "signin" =>
        \A e \in Emails, pw \in Passwords :
          Signin(e, pw) =>
            LET M == {i \in 1..Len(user) :
                        user[i].email = e /\ user[i].password_hash = pw}
            IN  IF M = {}
                  THEN /\ last' = Resp("signin", 401, NoBody)
                       /\ UNCHANGED Collections
                  ELSE /\ last'.op = "signin" /\ last'.status = 200
                       /\ last'.out.token # NoToken
                       /\ \E i \in M :
                            /\ user[i]._id = last'.out.user_id
                            /\ Authenticates(user', last'.out.token, user[i]._id)
                            /\ user'[i].auth_token = last'.out.token
                       /\ Len(user') = Len(user)
                       /\ \A i \in 1..Len(user) :
                            user[i].auth_token # NoToken => user'[i] = user[i]
                       /\ UNCHANGED <<overlay, widget, featureflag>>]_vars
  /\ [](\A r \in issued :
          \E u \in Range(user) : u._id = r.user_id /\ u.auth_token = r.token)

\* the seeded user, stored without a token, has signed in and holds the
\* token the last signin answered
C2_Witness ==
  /\ last.op = "signin" /\ last.status = 200
  /\ Len(user) >= 1
  /\ user[1].auth_token = last.out.token
  /\ user[1]._id = last.out.user_id
  /\ Cardinality({r \in issued : r.user_id = 1}) = 1

\* C3: for every plan, widget type and override table the gate answers the
\* allowed value of the override row for ("widget."+type, plan) when there is
\* one, otherwise that of the matching default, otherwise false; without
\* overrides pro/youtube is allowed and free/youtube is not, and the override
\* (widget.youtube, free, true) allows free/youtube.
C3_CanUse ==
  /\ \A p \in PlanName, t \in GateTypes :
        can_use_widget_type([plan |-> p], t) = SpecAllowed(p, t)
  /\ last.op = "can_use" =>
        last.out.allowed = SpecAllowed(last.out.plan, last.out.type)
  /\ featureflag = << >> =>
        /\ can_use_widget_type([plan |-> "pro"], "youtube")
        /\ ~ can_use_widget_type([plan |-> "free"], "youtube")
  /\ FlagRow("youtube", "free", TRUE) \in Range(featureflag) =>
        can_use_widget_type([plan |-> "free"], "youtube")
  /\ FlagRow("youtube", "pro", FALSE) \in Range(featureflag) =>
        ~ can_use_widget_type([plan |-> "pro"], "youtube")

C3_Witness ==
  /\ FlagRow("youtube", "free", TRUE) \in Range(featureflag)
  /\ last = Resp("can_use", 200,
                 [plan |-> "free", type |-> "youtube", allowed |-> TRUE])

\* C4: create_widget by an authenticated caller whose plan the gate denies
\* the type answers 402 and changes no collection; a widget is added only
\* by a create_widget step whose caller the gate allowed the type.
C4_CreateWidget ==
  [][/\ (/\ last'.op = "create_widget"
         /\ ~ (/\ last' = Resp("create_widget", 402, NoBody)
               /\ UNCHANGED Collections)) =>
          \A a \in AuthHeaders, t \in ReqTypes :
             (get_current_user(a) # 0
                /\ ~ SpecAllowed(user[get_current_user(a)].plan, t))
             => \A o \in OverlayIds : ~ CreateWidget(a, o, t)
     /\ widget' # widget /\ Len(widget') # Len(widget) =>
          \E a \in AuthHeaders, o \in OverlayIds, t \in ReqTypes :
             /\ CreateWidget(a, o, t)
             /\ get_current_user(a) # 0
             /\ SpecAllowed(user[get_current_user(a)].plan, t)
             /\ last' = Resp("create_widget", 200, [id |-> Len(widget')])
             /\ Len(widget') = Len(widget) + 1
             /\ widget'[Len(widget')].type = t]_vars

C4_Witness ==
  /\ last = Resp("create_widget", 402, NoBody)
  /\ \E u \in Range(user) : u.auth_token # NoToken

\* the step answers 403 without data and changes no collection
Refused(op) ==
  /\ last' = Resp(op, 403, NoBody)
  /\ UNCHANGED Collections

\* the bearer token a is valid, overlay o exists and its owner is another user
NotOwner(a, o) ==
  /\ get_current_user(a) # 0
  /\ Exists(o)
  /\ ~ OwnedBy(o, user[get_current_user(a)])

PublicView(w) ==
  [id |-> w._id, overlay_id |-> w.overlay_id, type |-> w.type, x |-> w.x]

\* C6: get_overlay_public answers the overlay's dimensions and widgets
\* exactly when an overlay with that id exists and the secret equals its
\* secret_token; otherwise it answers one and the same 404 without data; it
\* never changes a collection.
C6_Public ==
  [][last'.op = "get_overlay_public" =>
     \A o \in OverlayIds, s \in Secrets :
       GetOverlayPublic(o, s) =>
         LET T == {d \in Range(overlay) : d._id = o /\ d.secret_token = s}
             ws == {w \in Range(widget) : w.overlay_id = o}
         IN  /\ UNCHANGED Collections
             /\ IF T = {}
                  THEN last' = Resp("get_overlay_public", 404, NoBody)
                  ELSE /\ last'.op = "get_overlay_public" /\ last'.status = 200
                       /\ \E d \in T : /\ last'.out.id = d._id
                                       /\ last'.out.width = d.width
                                       /\ last'.out.height = d.height
                       /\ Range(last'.out.widgets) = {PublicView(w) : w \in ws}
                       /\ Len(last'.out.widgets) = Cardinality(ws)]_vars

C6_Witness ==
  /\ last.op = "get_overlay_public" /\ last.status = 200
  /\ Len(last.out.widgets) >= 1
  /\ \E d \in Range(overlay) : d._id = last.out.id

\* C7: no two user records have the same email.
C7_EmailUnique ==
  \A i, j \in 1..Len(user) : user[i].email = user[j].email => i = j

\* C8: every stored widget keeps the type it was created with.
C8_TypeFixed ==
  [][\A i \in 1..Len(widget) : widget'[i].type = widget[i].type]_vars

C10_TokensNeverRotated ==
  \A r \in issued : Authenticates(user, r.token, r.user_id)

====
